---- MODULE Spec2Model ----
(***************************************************************************)
(* Model of the LLM resilience layer of the FastAPI/LangGraph template:    *)
(*   app/services/llm.py   LLMRegistry, LLMService (retry + circular       *)
(*                         fallback over a shared cursor)                  *)
(*   app/api/v1/chatbot.py event_generator / copilot_event_generator       *)
(*                         (streaming multiplexers)                        *)
(* Coroutines run on one asyncio loop, so the code between two awaits is   *)
(* one atomic step.  A call suspends in ainvoke and in tenacity's backoff  *)
(* sleep only.                                                             *)
(***************************************************************************)
EXTENDS Integers, Sequences, FiniteSets, TLC

----------------------------------------------------------------------------
(* Bounds of the model *)

\* longest configured list settings.AVAILABLE_LLM_MODELS
MaxModels == 3
\* largest settings.MAX_LLM_CALL_RETRIES
MaxRetries == 2
\* number of call() coroutines that may overlap on the one service instance
MaxCalls == 2
\* longest feed (increments or events) a stream pulls before it ends
MaxFeed == 3

----------------------------------------------------------------------------
(* Values *)

\* identifiers a deployment may configure, in configuration order
AllIds == <<"m1", "m2", "m3", "m4", "m5">>
\* _get_llms falls back to one built-in identifier when none is configured
DefaultId == "builtin"
\* a name no registry holds
UnknownId == "zz"
\* model_name=None
NoModel == "none"

Procs == 1..MaxCalls

\* a BaseChatModel: the model it talks to, whether bind_tools wrapped it,
\* whether it was built with caller-supplied kwargs
Handle(n, t, k) == [name |-> n, tools |-> t, custom |-> k]
NoHandle == Handle(NoModel, FALSE, FALSE)

\* what one ainvoke can end with: a response, an exception of one of the
\* provider's retryable classes, any other Exception
Outcomes == {"ok", "retryable", "fatal"}

\* an exception instance: its class, the model that raised it, the attempt
\* of the Retry Unit that raised it
Exc(k, m, a) == [kind |-> k, model |-> m, att |-> a]
NoError == Exc("none", NoModel, 0)

Prefix(s, n) == SubSeq(s, 1, n)
Range(s) == {s[i] : i \in 1..Len(s)}

----------------------------------------------------------------------------
(* LLMRegistry *)

\* _get_llms: the configured identifiers (or the built-in default when the
\* list is empty), each constructed in order; a failing one is skipped
MutGetLlmsAbort(available, constructible) ==
    LET ids == IF available = <<>> THEN <<DefaultId>> ELSE available
    IN IF \A i \in 1..Len(ids) : ids[i] \in constructible
       THEN [i \in 1..Len(ids) |-> [name |-> ids[i], llm |-> Handle(ids[i], FALSE, FALSE)]]
       ELSE <<>>
GetLlms(available, constructible) ==
    LET ids == IF available = <<>> THEN <<DefaultId>> ELSE available
        ok == SelectSeq(ids, LAMBDA m : m \in constructible)
    IN [i \in 1..Len(ok) |-> [name |-> ok[i], llm |-> Handle(ok[i], FALSE, FALSE)]]

\* get_all_names
GetAllNames(llms) == [i \in 1..Len(llms) |-> llms[i].name]

\* list.index, 0-based; -1 stands for ValueError
ListIndex(names, n) ==
    IF \E i \in 1..Len(names) : names[i] = n
    THEN (CHOOSE i \in 1..Len(names) :
            names[i] = n /\ \A j \in 1..(i - 1) : names[j] # n) - 1
    ELSE -1

\* LLMRegistry.get: NoHandle stands for the ValueError of an unknown name
MutRegistryGet(llms, model_name, kwargs) ==
    LET i == ListIndex(GetAllNames(llms), model_name)
    IN IF i = -1 THEN llms[1].llm
       ELSE IF kwargs THEN Handle(model_name, FALSE, TRUE)
       ELSE llms[i + 1].llm
RegistryGet(llms, model_name, kwargs) ==
    LET i == ListIndex(GetAllNames(llms), model_name)
    IN IF i = -1 THEN NoHandle
       ELSE IF kwargs THEN Handle(model_name, FALSE, TRUE)
       ELSE llms[i + 1].llm

\* LLMRegistry.get_model_at_index
MutGetModelAtIndex(llms, index) == llms[1]
GetModelAtIndex(llms, index) ==
    IF 0 <= index /\ index < Len(llms) THEN llms[index + 1] ELSE llms[1]

----------------------------------------------------------------------------
(* State *)

VARIABLES
    settings,             \* AVAILABLE_LLM_MODELS, DEFAULT_LLM_MODEL, MAX_LLM_CALL_RETRIES
    service,              \* "ready" after __init__ returned, "failed" when it raised
    LLMS,                 \* LLMRegistry.LLMS
    llm,                  \* LLMService._llm
    current_model_index,  \* LLMService._current_model_index
    pc,                   \* per caller: where its call() is suspended
    frame,                \* per caller: the local variables of its call()
    obs,                  \* what an observer of the calls of caller Watched has seen
    stream,               \* the streaming response being generated
    provider,             \* the identifiers the provider can build a handle for
    lookup                \* the last get_model_at_index: its argument and result

vars == <<settings, service, LLMS, llm, current_model_index, pc, frame, obs, stream,
          provider, lookup>>
llmVars == <<settings, service, LLMS, llm, current_model_index, pc, frame, obs,
             provider, lookup>>

\* the RuntimeError call() raises after its loop: the values its message is
\* formatted from, models_tried and str(last_error)
AllModelsFailed(models_tried, last_error) ==
    [models_tried |-> models_tried, last_error |-> last_error]

\* locals of call() and of the tenacity loop around _call_llm_with_retry
NewFrame(total, start, target) ==
    [total_models |-> total, models_tried |-> 0, starting_index |-> start,
     last_error |-> NoError, attempt_number |-> 1, target |-> target]
IdleFrame == NewFrame(0, 0, NoHandle)

\* the caller whose calls are observed; the other callers run the same code
\* and are the interference it meets
Watched == CHOOSE p \in Procs : \A q \in Procs : p <= q

\* what an observer of one call() has seen
IdleObs ==
    [watch |-> "call",         \* how much is recorded: "call" all of it,
                               \* "overlap" what the claims on overlapping calls need
     model_name |-> NoModel,   \* the model_name passed to call()
     cursor0 |-> -1,           \* cursor when call() was entered
     start |-> -1,             \* starting_index of the call
     first |-> "none",         \* outcome of the first backend invocation
     visited |-> <<>>,         \* model of the first attempt of each Retry Unit run
     seen |-> {},              \* <<model, outcome>> of every finished invocation
     unit |-> <<>>,            \* the Retry Unit run in progress: handle and outcome
                               \* of each finished attempt
     invocations |-> 0,        \* backend invocations started by the call
     invoked |-> {},           \* models those invocations went to
     rotations |-> 0,          \* _switch_to_next_model calls made by the call
     response |-> NoHandle,    \* the handle whose response call() returned
     error_tried |-> 0,        \* models_tried in the RuntimeError call() raised
     error_last |-> NoError,   \* last_error in the RuntimeError call() raised
     raised |-> AllModelsFailed(0, NoError),  \* the RuntimeError call() raised
     end_cursor |-> -1,        \* cursor when the call ended
     prev_cursor |-> -1,       \* cursor when the caller's previous call ended
     prev_answer |-> NoModel,  \* model that answered the previous call after a fallback
     cancelled |-> FALSE]      \* a CancelledError was thrown into the call

\* the streaming response of one request: the endpoint that serves it, where
\* its generator stands, what it pulled from the agent's feed and how the
\* feed ended (with str(e) of the exception when it raised), the frames it
\* yielded, and its locals
StreamState(mode, at, pulled, ended, failure, out, full_response, event_count) ==
    [mode |-> mode, at |-> at, pulled |-> pulled, ended |-> ended,
     failure |-> failure, out |-> out,
     full_response |-> full_response, event_count |-> event_count]

\* get_model_at_index has not been called
NoLookup == [called |-> FALSE, index |-> 0, entry |-> [name |-> NoModel, llm |-> NoHandle]]

\* no streaming response has been requested
NoStream == StreamState("none", "unborn", <<>>, "no", "", <<>>, "", 0)

----------------------------------------------------------------------------
(* LLMService.__init__ *)

\* index of the default model, 0 when list.index raises ValueError
MutInitIndex(llms, default) == 0
InitIndex(llms, default) ==
    LET i == ListIndex(GetAllNames(llms), default)
    IN IF i = -1 THEN 0 ELSE i

\* the handle __init__ leaves in _llm
InitLlm(llms, default) ==
    LET i == ListIndex(GetAllNames(llms), default)
    IN IF i = -1 THEN llms[1].llm ELSE RegistryGet(llms, default, FALSE)

\* the state __init__ leaves behind for one configuration: the configured
\* identifiers, the ones whose handle can be constructed, the default model
\* and the attempt limit
Constructed(available, constructible, default, r) ==
    LET llms == GetLlms(available, constructible)
    IN /\ settings = [AVAILABLE_LLM_MODELS |-> available,
                      DEFAULT_LLM_MODEL |-> default,
                      MAX_LLM_CALL_RETRIES |-> r]
       /\ LLMS = llms
       /\ IF llms = <<>>
          THEN /\ service = "failed"
               /\ llm = NoHandle
               /\ current_model_index = 0
          ELSE /\ service = "ready"
               /\ llm = InitLlm(llms, default)
               /\ current_model_index = InitIndex(llms, default)
       /\ pc = [p \in Procs |-> "idle"]
       /\ frame = [p \in Procs |-> IdleFrame]
       /\ obs = IdleObs
       /\ stream = NoStream
       /\ provider = constructible
       /\ lookup = NoLookup

\* a service whose configured models were all constructed, the first of
\* them the default; calls take the cursor to the other entries
Init ==
    \E n \in 1..MaxModels, r \in 1..MaxRetries :
       Constructed(Prefix(AllIds, n), Range(Prefix(AllIds, n)), AllIds[1], r)

----------------------------------------------------------------------------
(* LLMService: retry and circular fallback *)

\* _get_next_model_index
MutGetNextModelIndexStay(index, total) == index % total
MutGetNextModelIndexNoWrap(index, total) == index + 1
GetNextModelIndex(index, total) == (index + 1) % total

\* _get_retry_exceptions + isinstance: is the exception one of the
\* provider's retryable classes
IsRetryError(outcome) == outcome = "retryable"

\* the body of _call_llm_with_retry after ainvoke ended: does it raise.
\* Both arms of the isinstance test end in a bare raise.
BodyRaises(outcome) ==
    IF outcome = "ok" THEN FALSE
    ELSE IF IsRetryError(outcome) THEN TRUE ELSE TRUE

\* isinstance(e, Exception), the test of an except Exception clause:
\* asyncio.CancelledError derives from BaseException, not from Exception
MutIsException(kind) == kind \in {"retryable", "fatal", "cancelled"}
IsException(kind) == kind \in {"retryable", "fatal"}

\* retry=retry_if_exception_type((Exception,)): every Exception the body
\* raises is a candidate for another attempt
RetryIfExceptionType(outcome) == BodyRaises(outcome) /\ IsException(outcome)

\* reraise=True: when the Retry Unit stops, the exception of its last attempt
\* is raised as it is, where tenacity would otherwise raise a RetryError (an
\* Exception of its own, raised by no attempt)
MutReraiseRetryError(e) == Exc("fatal", e.model, 0)
Reraise(e) == e

\* stop=stop_after_attempt(settings.MAX_LLM_CALL_RETRIES)
MutStopAfterAttempt(attempt_number, max) == attempt_number > max
StopAfterAttempt(attempt_number, max) == attempt_number >= max

\* call(), lines 484-496: the cursor after the explicit-model prologue
MutResolveIndexKeep(names, model_name, index) == index
MutResolveIndex(names, model_name, index) ==
    IF model_name = NoModel THEN 0
    ELSE LET i == ListIndex(names, model_name)
         IN IF i = -1 THEN index ELSE i
ResolveIndex(names, model_name, index) ==
    IF model_name = NoModel THEN index
    ELSE LET i == ListIndex(names, model_name)
         IN IF i = -1 THEN index ELSE i

\* call(), lines 484-496: the handle after the explicit-model prologue
ResolveLlm(llms, model_name, kwargs, cur) ==
    IF model_name = NoModel THEN cur ELSE RegistryGet(llms, model_name, kwargs)

\* while models_tried < total_models
LoopContinues(models_tried, total_models) == models_tried < total_models

\* if models_tried >= total_models: break
MutGivesUpLate(models_tried, total_models) == models_tried > total_models
GivesUp(models_tried, total_models) == models_tried >= total_models

\* the part of a record that is kept when calls overlap: the models and
\* handles the call went to and its rotations
Essential(o) ==
    [IdleObs EXCEPT !.watch = o.watch, !.model_name = o.model_name, !.start = o.start,
                    !.visited = o.visited, !.unit = o.unit, !.rotations = o.rotations,
                    !.invoked = o.invoked,
                    !.error_tried = o.error_tried]

\* the observer's record after a step of caller p
Observe(p, o) ==
    IF p # Watched THEN obs
    ELSE IF o.watch = "call" THEN o ELSE Essential(o)

\* the record of a call that is about to start; between the calls of one
\* caller the observer keeps the cursor the previous call ended with and
\* the model that answered it after a fallback
FreshObs(watch, model_name) ==
    [IdleObs EXCEPT !.watch = watch,
                    !.model_name = model_name,
                    !.cursor0 = current_model_index,
                    !.prev_cursor = obs.end_cursor,
                    !.prev_answer = IF obs.rotations > 0 THEN obs.response.name
                                    ELSE NoModel]

\* call() is entered: explicit-model prologue, loop bookkeeping, and the
\* first attempt of the first Retry Unit run up to its await of ainvoke
CallStart(p, model_name, kwargs, watch) ==
    /\ service = "ready"
    /\ pc[p] \in {"idle", "returned", "not_found", "exhausted", "cancelled"}
    /\ LET got == ResolveLlm(LLMS, model_name, kwargs, llm)
           idx == ResolveIndex(GetAllNames(LLMS), model_name, current_model_index)
           o == FreshObs(watch, model_name)
       IN IF got = NoHandle
          THEN \* ValueError from LLMRegistry.get is re-raised
               /\ pc' = [pc EXCEPT ![p] = "not_found"]
               /\ frame' = [frame EXCEPT ![p] = IdleFrame]
               /\ obs' = Observe(p,
                             [o EXCEPT !.end_cursor = current_model_index])
               /\ UNCHANGED <<llm, current_model_index>>
          ELSE /\ llm' = got
               /\ current_model_index' = idx
               /\ IF LoopContinues(0, Len(LLMS))
                  THEN /\ pc' = [pc EXCEPT ![p] = "invoking"]
                       /\ frame' = [frame EXCEPT ![p] = NewFrame(Len(LLMS), idx, got)]
                       /\ obs' = Observe(p,
                                     [o EXCEPT !.start = idx,
                                               !.visited = <<got.name>>,
                                               !.invocations = 1,
                                               !.invoked = {got.name}])
                  ELSE \* an empty registry: the loop body never runs
                       /\ pc' = [pc EXCEPT ![p] = "exhausted"]
                       /\ frame' = [frame EXCEPT ![p] = IdleFrame]
                       /\ obs' = Observe(p,
                                     [o EXCEPT !.start = idx, !.end_cursor = idx,
                                               !.raised = AllModelsFailed(0, NoError)])
    /\ UNCHANGED <<settings, service, LLMS, stream, provider, lookup>>

\* the cursor _get_next_model_index computes from: self._current_model_index
\* as it is when _switch_to_next_model runs, which has no await between
\* this read and its write
MutCursorReadAtEntry(p) ==
    (frame[p].starting_index + frame[p].models_tried) % frame[p].total_models
CursorRead(p) == current_model_index

\* an exception e leaves the Retry Unit and reaches the try of call(): it
\* passes the except Exception arm uncaught and ends the call, or the arm
\* counts the model and gives up or rotates and starts the next Retry Unit
\* run up to its await of ainvoke; o is the observer's record so far
Propagate(p, o, e) ==
    LET f == frame[p]
        tried == f.models_tried + 1
        next_index == GetNextModelIndex(CursorRead(p), Len(LLMS))
        next_llm == GetModelAtIndex(LLMS, next_index).llm
    IN IF ~IsException(e.kind)
       THEN \* not an Exception: the call ends with it
            /\ pc' = [pc EXCEPT ![p] = "cancelled"]
            /\ frame' = [frame EXCEPT ![p] = IdleFrame]
            /\ obs' = Observe(p, [o EXCEPT !.end_cursor = current_model_index])
            /\ UNCHANGED <<llm, current_model_index>>
       ELSE IF GivesUp(tried, f.total_models) \/ Len(LLMS) = 0
       THEN \* break, then raise RuntimeError
            /\ pc' = [pc EXCEPT ![p] = "exhausted"]
            /\ frame' = [frame EXCEPT ![p] = IdleFrame]
            /\ obs' = Observe(p,
                          [o EXCEPT !.error_tried = tried, !.error_last = e,
                                    !.raised = AllModelsFailed(tried, e),
                                    !.end_cursor = current_model_index])
            /\ UNCHANGED <<llm, current_model_index>>
       ELSE \* _switch_to_next_model, then the loop condition again
            /\ current_model_index' = next_index
            /\ llm' = next_llm
            /\ IF LoopContinues(tried, f.total_models)
               THEN /\ pc' = [pc EXCEPT ![p] = "invoking"]
                    /\ frame' = [frame EXCEPT ![p] =
                           [f EXCEPT !.models_tried = tried, !.last_error = e,
                                     !.attempt_number = 1, !.target = next_llm]]
                    /\ obs' = Observe(p,
                           [o EXCEPT !.unit = <<>>,
                                     !.visited = Append(o.visited, next_llm.name),
                                     !.invocations = o.invocations + 1,
                                     !.invoked = o.invoked \cup {next_llm.name},
                                     !.rotations = o.rotations + 1])
               ELSE /\ pc' = [pc EXCEPT ![p] = "exhausted"]
                    /\ frame' = [frame EXCEPT ![p] = IdleFrame]
                    /\ obs' = Observe(p,
                           [o EXCEPT !.rotations = o.rotations + 1,
                                     !.error_tried = tried, !.error_last = e,
                                     !.raised = AllModelsFailed(tried, e),
                                     !.end_cursor = next_index])

\* ainvoke ends with outcome: the response is returned, or tenacity decides
\* between a backoff sleep and re-raising to call()
InvokeReturn(p, outcome) ==
    /\ pc[p] = "invoking"
    /\ LET f == frame[p]
           e == Exc(outcome, f.target.name, f.attempt_number)
           o == [obs EXCEPT
                   !.seen = obs.seen \cup {<<f.target.name, outcome>>},
                   !.first = IF obs.first = "none" THEN outcome ELSE obs.first,
                   !.unit = Append(obs.unit, [h |-> f.target, res |-> outcome]),
                   !.cancelled = (outcome = "cancelled")]
       IN IF ~BodyRaises(outcome)
          THEN \* return response
               /\ pc' = [pc EXCEPT ![p] = "returned"]
               /\ frame' = [frame EXCEPT ![p] = IdleFrame]
               /\ obs' = Observe(p,
                             [o EXCEPT !.response = f.target,
                                       !.end_cursor = current_model_index])
               /\ UNCHANGED <<llm, current_model_index>>
          ELSE IF RetryIfExceptionType(outcome)
                  /\ ~StopAfterAttempt(f.attempt_number, settings.MAX_LLM_CALL_RETRIES)
          THEN \* wait_exponential: sleep, then another attempt
               /\ pc' = [pc EXCEPT ![p] = "sleeping"]
               /\ obs' = Observe(p, o)
               /\ UNCHANGED <<frame, llm, current_model_index>>
          ELSE \* reraise=True: the exception reaches call()
               Propagate(p, o, Reraise(e))
    /\ UNCHANGED <<settings, service, LLMS, stream, provider, lookup>>

\* the task of the call is cancelled during the backoff sleep: asyncio.sleep
\* raises CancelledError inside tenacity's loop, outside the attempt, and it
\* reaches call()
SleepCancelled(p) ==
    /\ pc[p] = "sleeping"
    /\ Propagate(p, [obs EXCEPT !.cancelled = TRUE],
                 Exc("cancelled", frame[p].target.name, frame[p].attempt_number))
    /\ UNCHANGED <<settings, service, LLMS, stream, provider, lookup>>

\* the backoff sleep ends: the next attempt reads self._llm and awaits ainvoke
SleepDone(p) ==
    /\ pc[p] = "sleeping"
    /\ pc' = [pc EXCEPT ![p] = "invoking"]
    /\ frame' = [frame EXCEPT ![p] =
                    [frame[p] EXCEPT !.attempt_number = frame[p].attempt_number + 1,
                                     !.target = llm]]
    /\ obs' = Observe(p, [obs EXCEPT !.invocations = obs.invocations + 1,
                                     !.invoked = obs.invoked \cup {llm.name}])
    /\ UNCHANGED <<settings, service, LLMS, llm, current_model_index, stream,
                   provider, lookup>>

\* bind_tools
BindTools ==
    /\ service = "ready"
    /\ llm # NoHandle
    /\ llm' = [llm EXCEPT !.tools = TRUE]
    /\ UNCHANGED <<settings, service, LLMS, current_model_index, pc, frame, obs, stream,
                   provider, lookup>>

\* the model names a caller may pass to call(): none, a registered one, one
\* the registry does not hold
ModelNames == {NoModel, UnknownId} \cup Range(GetAllNames(LLMS))

\* calls of one caller, one at a time
NextSeq ==
    \/ \E model_name \in ModelNames, kwargs \in BOOLEAN :
          CallStart(Watched, model_name, kwargs, "call")
    \/ \E outcome \in Outcomes : InvokeReturn(Watched, outcome)
    \/ SleepDone(Watched)
    \/ BindTools

SpecSeq == Init /\ [][NextSeq]_vars

\* calls of one caller with registry handles only, when every backend
\* invocation ends (with a response or an exception) and every backoff
\* sleep ends: wait_exponential sleeps at most 10 seconds and the event loop
\* resumes a coroutine whose await is done
NextLive ==
    \/ \E model_name \in ModelNames : CallStart(Watched, model_name, FALSE, "call")
    \/ \E outcome \in Outcomes : InvokeReturn(Watched, outcome)
    \/ SleepDone(Watched)

SpecLive ==
    /\ Init /\ [][NextLive]_vars
    /\ WF_vars(\E outcome \in Outcomes : InvokeReturn(Watched, outcome))
    /\ WF_vars(SleepDone(Watched))

\* calls of one caller whose task may be cancelled while it is suspended, in
\* ainvoke or in the backoff sleep
NextCancel ==
    \/ \E model_name \in ModelNames : CallStart(Watched, model_name, FALSE, "call")
    \/ \E outcome \in Outcomes \cup {"cancelled"} : InvokeReturn(Watched, outcome)
    \/ SleepDone(Watched)
    \/ SleepCancelled(Watched)

SpecCancel == Init /\ [][NextCancel]_vars

\* the outcomes drawn when calls overlap: InvokeReturn takes the same path
\* for both kinds of exception, so one kind stands for both
ConcOutcomes == {"ok", "retryable"}

\* overlapping calls of several callers on the one service instance, with
\* registry handles only (no kwargs override, no bind_tools): the
\* interleavings of the cursor and of the active handle
Next ==
    \/ \E p \in Procs, model_name \in ModelNames :
          CallStart(p, model_name, FALSE, "overlap")
    \/ \E p \in Procs, outcome \in ConcOutcomes : InvokeReturn(p, outcome)
    \/ \E p \in Procs : SleepDone(p)

Spec == Init /\ [][Next]_vars

----------------------------------------------------------------------------
(* Properties of call() *)

\* registry length
N == Len(LLMS)

\* name of the entry at a position of the circular order
NameAt(i) == LLMS[(i % N) + 1].name

\* the watched call has been entered without / with a model_name and has
\* reached its loop
Implicit == obs.start # -1 /\ obs.model_name = NoModel
Explicit == obs.start # -1 /\ obs.model_name # NoModel

\* every invocation of model m the call has seen end failed with kind k
OnlyFailed(m, k) ==
    /\ <<m, k>> \in obs.seen
    /\ \A x \in obs.seen : x[1] = m => x[2] = k

\* every invocation of a model other than m the call has seen end succeeded
OthersSucceeded(m) == \A x \in obs.seen : x[1] # m => x[2] = "ok"

\* the first k models of the circular order that starts at position c
CircularFrom(c, k) == [i \in 1..k |-> NameAt(c + i - 1)]

\* C1: when the model at the starting cursor c fails non-retryably every
\* time and every other model succeeds, a call without model_name (N >= 2)
\* is not exhausted, rotates exactly once, is answered by the model at
\* (c+1) mod N and leaves the cursor at (c+1) mod N.
C1_FallbackOnce ==
    (/\ Implicit
     /\ N >= 2
     /\ OnlyFailed(NameAt(obs.start), "fatal")
     /\ OthersSucceeded(NameAt(obs.start)))
    => /\ pc[Watched] # "exhausted"
       /\ obs.rotations <= 1
       /\ (pc[Watched] = "invoking" /\ obs.rotations = 1)
             => frame[Watched].target.name = NameAt(obs.start + 1)
       /\ pc[Watched] = "returned"
             => /\ obs.rotations = 1
                /\ obs.response.name = NameAt(obs.start + 1)
                /\ obs.end_cursor = (obs.start + 1) % N
                /\ current_model_index = (obs.start + 1) % N

\* C1 witness: a call that started at the last entry of a registry of three
\* or more was answered after its first model failed non-retryably
C1_Witness ==
    /\ Implicit /\ N >= 3 /\ obs.start = N - 1
    /\ OnlyFailed(NameAt(obs.start), "fatal")
    /\ OthersSucceeded(NameAt(obs.start))
    /\ pc[Watched] = "returned"

\* C2: a call without model_name runs the Retry Unit on the models of the
\* circular order from its starting cursor, one run per model and every
\* attempt of a run on that model; it ends exhausted only after all N models
\* were visited, each once, with every invocation failed.
C2_FullCycle ==
    Implicit
    => /\ Len(obs.visited) = obs.rotations + 1
       /\ Len(obs.visited) <= N
       /\ obs.visited = CircularFrom(obs.start, Len(obs.visited))
       /\ \A i \in 1..Len(obs.unit) : obs.unit[i].h.name = obs.visited[Len(obs.visited)]
       /\ pc[Watched] = "exhausted"
             => /\ obs.visited = CircularFrom(obs.start, N)
                /\ obs.error_tried = N
                /\ \A x \in obs.seen : x[2] # "ok"
                /\ \A i \in 0..(N - 1) : \E x \in obs.seen : x[1] = NameAt(i)

\* C2 witness: a call of a registry of three that started in the middle of
\* the list ended exhausted
C2_Witness ==
    /\ Implicit /\ N = 3 /\ obs.start = 1
    /\ pc[Watched] = "exhausted"

\* C3: when the first backend invocation of a call without model_name
\* succeeds, the call has returned that model's response after one
\* invocation, without rotation, and the cursor is where it was.
C3_FirstSuccess ==
    (Implicit /\ obs.first = "ok")
    => /\ pc[Watched] = "returned"
       /\ obs.invocations = 1
       /\ obs.rotations = 0
       /\ obs.response.name = NameAt(obs.cursor0)
       /\ obs.end_cursor = obs.cursor0
       /\ current_model_index = obs.cursor0

\* C3 witness: a call entered with the cursor at the last of several models
\* was answered at once
C3_Witness ==
    /\ Implicit /\ obs.first = "ok"
    /\ N >= 2 /\ obs.cursor0 = N - 1
    /\ pc[Watched] = "returned"

\* the attempt limit of the Retry Unit
R == settings.MAX_LLM_CALL_RETRIES

\* every attempt of a run of the Retry Unit ended in a retryable exception
AllRetryable(att) == \A i \in 1..Len(att) : att[i].res = "retryable"

\* C4: a Retry Unit run whose first attempt ends in a non-retryable
\* exception makes exactly one backend invocation and takes no backoff sleep.
C4_FatalNotRetried ==
    (Len(obs.unit) >= 1 /\ obs.unit[1].res = "fatal")
    => (Len(obs.unit) = 1 /\ pc[Watched] # "sleeping")

\* the exception the watched call's Retry Unit run propagated last
LastError ==
    IF pc[Watched] = "exhausted" THEN obs.error_last ELSE frame[Watched].last_error

\* a Retry Unit run of the watched call ends in this step by propagating
UnitRaises ==
    /\ pc[Watched] = "invoking"
    /\ pc'[Watched] = "exhausted" \/ obs'.rotations = obs.rotations + 1

\* C5 (states): a run never makes more than R invocations, sleeps or starts
\* an attempt only while fewer than R are made, and a last run that
\* propagated after retryable failures only made exactly R.
C5_AttemptsWithinR ==
    /\ Len(obs.unit) <= R
    /\ pc[Watched] \in {"sleeping", "invoking"} => Len(obs.unit) < R
    /\ (pc[Watched] = "exhausted" /\ AllRetryable(obs.unit)) => Len(obs.unit) = R
    /\ (/\ pc[Watched] = "returned"
        /\ AllRetryable(SubSeq(obs.unit, 1, Len(obs.unit) - 1))
        /\ Len(obs.unit) >= R)
          => Len(obs.unit) = R

\* C5 (steps): a run propagates a retryable failure, after retryable
\* failures only, at its R-th invocation and at no other.
C5_PropagatesAtR ==
    (UnitRaises /\ AllRetryable(obs.unit) /\ LastError'.kind = "retryable")
    => (Len(obs.unit) + 1 = R /\ LastError'.att = R)

\* C5: R-1 retryable failures and a success give a response after exactly R
\* invocations; R retryable failures give a propagated failure after
\* exactly R invocations, never R+1.
C5_RetryUpToR == []C5_AttemptsWithinR /\ [][C5_PropagatesAtR]_vars

\* C5 witness: a run was answered at its R-th invocation after R-1
\* retryable failures
C5_Witness ==
    /\ R >= 2
    /\ pc[Watched] = "returned"
    /\ Len(obs.unit) = R
    /\ AllRetryable(SubSeq(obs.unit, 1, R - 1))
    /\ obs.unit[R].res = "ok"

\* C6: the cursor of a constructed service is an index of the registry.
C6_CursorInRange ==
    service = "ready" => (0 <= current_model_index /\ current_model_index < N)

\* C6 witness: every caller has a call in progress that has rotated, and
\* the cursor has wrapped to the first entry
C6_Witness ==
    /\ N >= 2
    /\ \A p \in Procs : pc[p] \in {"invoking", "sleeping"} /\ frame[p].models_tried >= 1
    /\ current_model_index = 0

\* C7: a call without model_name that follows another call of the caller
\* starts at the cursor the previous call ended with, and invokes first the
\* model that answered the previous call after its fallback.
C7_StickyCursor ==
    (Implicit /\ obs.prev_cursor # -1)
    => /\ obs.cursor0 = obs.prev_cursor
       /\ obs.start = obs.prev_cursor
       /\ obs.prev_answer # NoModel => obs.visited[1] = obs.prev_answer

\* C7 witness: the previous call fell back to a model other than the
\* configured default and this call invokes that model first
C7_Witness ==
    /\ Implicit
    /\ obs.prev_answer # NoModel
    /\ obs.prev_answer # settings.DEFAULT_LLM_MODEL
    /\ obs.visited[1] = obs.prev_answer

\* the watched call was entered with a model_name the registry does not hold
UnknownRequested ==
    /\ obs.cursor0 # -1
    /\ obs.model_name # NoModel
    /\ ListIndex(GetAllNames(LLMS), obs.model_name) = -1

\* C8 (states): such a call has ended with the registry's error without any
\* invocation or rotation, the cursor where it was.
C8_UnknownFailsAtOnce ==
    UnknownRequested
    => /\ pc[Watched] = "not_found"
       /\ obs.invocations = 0
       /\ obs.rotations = 0
       /\ obs.visited = <<>>
       /\ obs.end_cursor = obs.cursor0
       /\ current_model_index = obs.cursor0

\* C8 (steps): the step in which a call ends with the registry's error
\* changes neither the cursor nor the active handle.
C8_UnknownChangesNothing ==
    (pc'[Watched] = "not_found" /\ obs' # obs)
    => (llm' = llm /\ current_model_index' = current_model_index)

\* C8: call() with an unregistered model_name fails at once: no backend
\* invocation, no retry, no fallback, cursor and active handle unchanged.
C8_UnknownModel == []C8_UnknownFailsAtOnce /\ [][C8_UnknownChangesNothing]_vars

\* C8 witness: an unknown model was requested of a service whose cursor had
\* moved and whose handle had tools bound
C8_Witness ==
    /\ UnknownRequested
    /\ obs.model_name = UnknownId
    /\ current_model_index # 0
    /\ llm.tools

----------------------------------------------------------------------------
(* Streaming endpoints: event_generator and copilot_event_generator *)

\* StreamResponse.model_dump(): the payload of a plain frame
StreamResponse(content, done) == [content |-> content, done |-> done]

\* CopilotEvent.model_dump(): the payload of a structured frame
CopilotEvent(event_type, content, metadata) ==
    [event_type |-> event_type, content |-> content, metadata |-> metadata]

\* text increments get_stream_response may yield
Chunks == {"", "a", "b"}

\* events get_copilot_stream_events may yield: tokens and tool-call
\* notifications, the metadata reduced to the tool call it belongs to
FeedEventTypes == {"assistant_token", "tool_call_start", "tool_call_end"}
FeedEvents ==
    {CopilotEvent("assistant_token", c, "none") : c \in {"", "a"}}
    \cup {CopilotEvent(t, "", id) : t \in FeedEventTypes \ {"assistant_token"},
                                     id \in {"t1", "t2"}}

\* what the feed of an endpoint may yield
FeedItems(mode) == IF mode = "plain" THEN Chunks ELSE FeedEvents

\* str(e) of an exception raised while streaming
Messages == {"", "boom"}

\* metadata={"session_id": session.id} of the frames the generator builds
SessionMeta == "session"

\* the frame yielded for one item of the feed
TokenFrame(mode, item) ==
    IF mode = "plain" THEN StreamResponse(item, FALSE) ELSE item

\* the frame yielded after the feed completed
FinalFrame(mode) ==
    IF mode = "plain" THEN StreamResponse("", TRUE)
    ELSE CopilotEvent("final", "", SessionMeta)

\* the frame yielded by the except arm
MutErrorFrame(mode, message) ==
    IF mode = "plain" THEN StreamResponse("", TRUE)
    ELSE CopilotEvent("error", "", SessionMeta)
ErrorFrame(mode, message) ==
    IF mode = "plain" THEN StreamResponse(message, TRUE)
    ELSE CopilotEvent("error", message, SessionMeta)

\* the frames after the body of the async for ran for one item
MutForward(mode, out, item) == out
MutForwardNewestFirst(mode, out, item) == <<TokenFrame(mode, item)>> \o out
Forward(mode, out, item) == Append(out, TokenFrame(mode, item))

\* the frames after the except arm ran
MutOnFailure(mode, out, message) == out
OnFailure(mode, out, message) == Append(out, ErrorFrame(mode, message))

\* chat_stream / chat_copilot_stream: the generator is created and handed
\* to StreamingResponse
StreamOpen(mode) ==
    /\ service = "ready"
    /\ stream.at \in {"unborn", "done", "closed"}
    /\ stream' = StreamState(mode, "created", <<>>, "no", "", <<>>, "", 0)
    /\ UNCHANGED llmVars

\* the consumer asks for a frame: the generator starts, or resumes after a
\* yield; it awaits the feed, or returns after a terminal frame
Resume ==
    /\ stream.at \in {"created", "yielded", "terminal"}
    /\ stream' = [stream EXCEPT !.at = IF stream.at = "terminal" THEN "done"
                                       ELSE "pulling"]
    /\ UNCHANGED llmVars

\* the feed yields an item: the loop body accumulates and yields its frame
FeedYields(item) ==
    /\ stream.at = "pulling"
    /\ Len(stream.pulled) < MaxFeed
    /\ item \in FeedItems(stream.mode)
    /\ stream' = [stream EXCEPT
                    !.at = "yielded",
                    !.pulled = Append(stream.pulled, item),
                    !.out = Forward(stream.mode, stream.out, item),
                    !.full_response = IF stream.mode = "plain"
                                      THEN stream.full_response \o item
                                      ELSE stream.full_response,
                    !.event_count = IF stream.mode = "plain" THEN 0
                                    ELSE stream.event_count + 1]
    /\ UNCHANGED llmVars

\* the feed is exhausted: the loop ends and the final frame is yielded
FeedCompletes ==
    /\ stream.at = "pulling"
    /\ stream' = [stream EXCEPT !.at = "terminal", !.ended = "completed",
                                !.out = Append(stream.out, FinalFrame(stream.mode))]
    /\ UNCHANGED llmVars

\* an Exception is raised inside the try (by the feed, or before the first
\* item): the except arm yields the error frame
FeedRaises(message) ==
    /\ stream.at = "pulling"
    /\ stream' = [stream EXCEPT !.at = "terminal", !.ended = "raised",
                                !.failure = message,
                                !.out = OnFailure(stream.mode, stream.out, message)]
    /\ UNCHANGED llmVars

\* the consumer goes away: GeneratorExit or CancelledError, which except
\* Exception does not catch, ends the generator without a further frame
Abandon ==
    /\ stream.at \in {"created", "pulling", "yielded", "terminal"}
    /\ stream' = [stream EXCEPT !.at = "closed"]
    /\ UNCHANGED llmVars

NextStream ==
    \/ \E mode \in {"plain", "copilot"} : StreamOpen(mode)
    \/ Resume
    \/ \E item \in FeedItems(stream.mode) : FeedYields(item)
    \/ FeedCompletes
    \/ \E message \in Messages : FeedRaises(message)
    \/ Abandon

SpecStream == Init /\ [][NextStream]_vars

----------------------------------------------------------------------------
(* Properties of the streaming endpoints *)

\* a frame that tells the consumer the stream is over
IsTerminal(mode, fr) ==
    IF mode = "plain" THEN fr.done ELSE fr.event_type \in {"final", "error"}

\* positions of the terminal frames yielded so far
TerminalAt == {i \in 1..Len(stream.out) : IsTerminal(stream.mode, stream.out[i])}

\* C9: in either mode a stream yields at most one terminal frame and nothing
\* after it; none while the feed is being consumed; exactly one once the
\* feed completed or failed, so a stream run to its end has exactly one, as
\* its last frame.
C9_OneTerminalLast ==
    stream.mode # "none"
    => /\ Cardinality(TerminalAt) <= 1
       /\ TerminalAt \subseteq {Len(stream.out)}
       /\ stream.at \in {"created", "pulling", "yielded"} => TerminalAt = {}
       /\ stream.ended = "no" => TerminalAt = {}
       /\ stream.ended # "no" => TerminalAt = {Len(stream.out)}
       /\ stream.at = "done" => (stream.ended # "no" /\ TerminalAt = {Len(stream.out)})

\* C9 witness: a structured stream whose feed failed after two or more
\* events was run to its end
C9_Witness ==
    /\ stream.mode = "copilot"
    /\ stream.at = "done"
    /\ stream.ended = "raised"
    /\ Len(stream.pulled) >= 2

\* the plain frames of a sequence of increments
PlainTokens(chunks) == [i \in 1..Len(chunks) |-> StreamResponse(chunks[i], FALSE)]

RECURSIVE Concat(_)
\* the increments joined in order
Concat(chunks) ==
    IF chunks = <<>> THEN "" ELSE Concat(SubSeq(chunks, 1, Len(chunks) - 1)) \o chunks[Len(chunks)]

\* C10: in plain mode the frames yielded are the increments pulled, as
\* frames with done=false, in the feed's order; while the feed is consumed
\* every increment pulled has been yielded, so none is held back when the
\* next is pulled; after normal completion exactly one frame follows, the
\* final one.
C10_PlainTokensThenFinal ==
    stream.mode = "plain"
    => /\ Len(stream.out) >= Len(stream.pulled)
       /\ SubSeq(stream.out, 1, Len(stream.pulled)) = PlainTokens(stream.pulled)
       /\ stream.full_response = Concat(stream.pulled)
       /\ stream.at \in {"pulling", "yielded"} => stream.out = PlainTokens(stream.pulled)
       /\ stream.ended = "completed"
             => stream.out = Append(PlainTokens(stream.pulled), StreamResponse("", TRUE))

\* C10 witness: a plain stream of three increments completed and was run to
\* its end
C10_Witness ==
    /\ stream.mode = "plain"
    /\ stream.at = "done"
    /\ stream.ended = "completed"
    /\ Len(stream.pulled) = 3

\* the frames of a sequence of feed items, one per item, in the feed's order
Forwarded(mode, items) == [i \in 1..Len(items) |-> TokenFrame(mode, items[i])]

\* C11 (states): once the feed raised after k items, the frames yielded are
\* the k forwarded items in order followed by one error frame that carries
\* str(e); the generator is past its feed (it yielded the error frame and
\* returns normally, or was closed), so the failure did not leave it.
C11_TokensThenError ==
    stream.ended = "raised"
    => /\ Len(stream.out) = Len(stream.pulled) + 1
       /\ SubSeq(stream.out, 1, Len(stream.pulled))
             = Forwarded(stream.mode, stream.pulled)
       /\ LET last == stream.out[Len(stream.out)]
          IN /\ last.content = stream.failure
             /\ IF stream.mode = "plain" THEN last.done
                ELSE last.event_type = "error"
       /\ stream.at \in {"terminal", "done", "closed"}

\* C11 (steps): after the failure the stream pulls nothing more from the
\* feed and yields nothing more.
C11_NothingAfterError ==
    (stream.ended = "raised" /\ stream'.ended = "raised")
    => /\ stream'.pulled = stream.pulled
       /\ stream'.out = stream.out
       /\ stream'.failure = stream.failure

StartsCall(events, i, id) ==
    events[i].event_type = "tool_call_start" /\ events[i].metadata = id
EndsCall(events, i, id) ==
    events[i].event_type = "tool_call_end" /\ events[i].metadata = id

\* C12: in structured mode the frames yielded are the feed's events, one
\* frame per event, unchanged and in arrival order; after normal completion
\* exactly one frame follows, the final one.  So a tool-call start that the
\* feed delivered before its end is yielded before it.
C12_StructuredInOrder ==
    stream.mode = "copilot"
    => /\ Len(stream.out) >= Len(stream.pulled)
       /\ stream.event_count = Len(stream.pulled)
       /\ \A i \in 1..Len(stream.pulled) :
             /\ stream.out[i].event_type = stream.pulled[i].event_type
             /\ stream.out[i] = stream.pulled[i]
       /\ \A i, j \in 1..Len(stream.pulled), id \in {"t1", "t2"} :
             (i < j /\ StartsCall(stream.pulled, i, id) /\ EndsCall(stream.pulled, j, id))
             => (StartsCall(stream.out, i, id) /\ EndsCall(stream.out, j, id))
       /\ stream.at \in {"pulling", "yielded"} => Len(stream.out) = Len(stream.pulled)
       /\ stream.ended = "completed"
             => /\ Len(stream.out) = Len(stream.pulled) + 1
                /\ stream.out[Len(stream.out)].event_type = "final"

\* C12 witness: a structured stream whose feed delivered a tool-call start,
\* a token and the matching tool-call end completed and was run to its end
C12_Witness ==
    /\ stream.mode = "copilot"
    /\ stream.at = "done"
    /\ stream.ended = "completed"
    /\ Len(stream.pulled) = 3
    /\ StartsCall(stream.pulled, 1, "t1")
    /\ stream.pulled[2].event_type = "assistant_token"
    /\ EndsCall(stream.pulled, 3, "t1")

----------------------------------------------------------------------------
(* Properties of call(), continued *)

\* C13: the RuntimeError of a call that ended with every model failed
\* carries the number of models tried, the name of the model the call
\* started from, and the last underlying error.
C13_ErrorNamesStart ==
    (pc[Watched] = "exhausted" /\ obs.watch = "call")
    => /\ obs.raised.models_tried = Len(obs.visited)
       /\ obs.raised.last_error.kind = obs.unit[Len(obs.unit)].res
       /\ obs.raised.last_error.model = obs.unit[Len(obs.unit)].h.name
       /\ obs.raised.last_error.att = Len(obs.unit)
       /\ "starting_model" \in DOMAIN obs.raised
       /\ obs.raised.starting_model = NameAt(obs.start)

\* registry index of the model_name the watched call was entered with
RequestedIndex == ListIndex(GetAllNames(LLMS), obs.model_name)

\* C14: a call entered with the name of the model registered at index i
\* starts from cursor i and invokes that model first; when that model's
\* Retry Unit run fails the call rotates to the model at (i+1) mod N and on
\* along the circular order, the explicit model being the first of the at
\* most N models it visits.
C14_ExplicitThenFallback ==
    (Explicit /\ RequestedIndex # -1)
    => /\ obs.start = RequestedIndex
       /\ obs.visited[1] = obs.model_name
       /\ obs.rotations = 0
             => /\ \A k \in 1..Len(obs.unit) : obs.unit[k].h.name = obs.model_name
                /\ pc[Watched] \in {"invoking", "sleeping"}
                      => /\ current_model_index = RequestedIndex
                         /\ frame[Watched].target.name = obs.model_name
       /\ Len(obs.visited) = obs.rotations + 1
       /\ Len(obs.visited) <= N
       /\ obs.visited = CircularFrom(RequestedIndex, Len(obs.visited))
       /\ obs.rotations >= 1 => obs.visited[2] = NameAt(RequestedIndex + 1)
       /\ pc[Watched] \in {"invoking", "sleeping"}
             => current_model_index = (RequestedIndex + obs.rotations) % N
       /\ pc[Watched] = "exhausted"
             => (Len(obs.visited) = N /\ obs.error_tried = N)

\* C14 witness: the last model of a registry of three was requested by name
\* while the cursor was elsewhere, failed, and the first model answered
C14_Witness ==
    /\ Explicit
    /\ N = 3 /\ RequestedIndex = 2 /\ obs.cursor0 # 2
    /\ obs.rotations = 1
    /\ pc[Watched] = "returned"
    /\ obs.response.name = NameAt(0)

\* the watched call is in progress / has ended
InProgress == pc[Watched] \in {"invoking", "sleeping"}
Ended == pc[Watched] \in {"returned", "exhausted", "not_found"}

\* C15 (states): a call never starts more than N x R backend invocations,
\* and it ends either with a response and no error or with an error and no
\* response.
C15_AtMostNR ==
    obs.cursor0 # -1
    => /\ obs.invocations <= N * R
       /\ pc[Watched] = "returned"
             => (obs.response # NoHandle /\ obs.error_tried = 0)
       /\ pc[Watched] \in {"exhausted", "not_found"} => obs.response = NoHandle
       /\ pc[Watched] = "exhausted" => obs.error_tried >= 1

\* C15 (behaviours): a call in progress ends.
C15_CallEnds == InProgress ~> Ended

\* C15: every call ends, with a response or with an error, after at most
\* N x R backend invocations, whatever the invocations end with.
C15_Terminates == []C15_AtMostNR /\ C15_CallEnds

\* C15 witness: a call of a registry of three with two attempts per model
\* ended after 3 x 2 invocations, non-retryable failures among them
C15_Witness ==
    /\ N = 3 /\ R = 2
    /\ obs.invocations = N * R
    /\ Ended
    /\ \E x \in obs.seen : x[2] = "fatal"
    /\ \E x \in obs.seen : x[2] = "retryable"

----------------------------------------------------------------------------
(* LLMRegistry on its own: initialize() and get_model_at_index *)

\* the identifiers a configuration draws from
Ids == Range(Prefix(AllIds, MaxModels))

\* the lists settings.AVAILABLE_LLM_MODELS may hold, the empty one and
\* lists with a repeated identifier among them
Lists == UNION {[1..k -> Ids] : k \in 0..MaxModels}

\* the integers get_model_at_index is asked for: negative ones, indices of
\* the registry, and ones past its end
Indexes == (0 - (MaxModels + 1))..(2 * MaxModels + 1)

\* a service constructed under any configuration and any provider: some
\* identifiers may fail to construct, the default may be unregistered
InitRegistry ==
    \E available \in Lists, constructible \in SUBSET (Ids \cup {DefaultId}),
       default \in {AllIds[1], AllIds[2], UnknownId} :
       Constructed(available, constructible, default, MaxRetries)

\* LLMRegistry.get_model_at_index(index) on an initialized registry
Lookup(index) ==
    /\ service = "ready"
    /\ lookup' = [called |-> TRUE, index |-> index,
                  entry |-> GetModelAtIndex(LLMS, index)]
    /\ UNCHANGED <<settings, service, LLMS, llm, current_model_index, pc, frame, obs,
                   stream, provider>>

NextRegistry == \E index \in Indexes : Lookup(index)

SpecRegistry == InitRegistry /\ [][NextRegistry]_vars

\* C16: get_model_at_index(index) returns the entry at position index mod N,
\* for negative indices and indices past the end too.
C16_LookupModulo ==
    lookup.called => lookup.entry = LLMS[(lookup.index % N) + 1]

\* the identifiers of a list the provider built a handle for, in the
\* list's order
Built(ids) == SelectSeq(ids, LAMBDA m : m \in provider)

\* the list initialize() works through: the configured one, or the one
\* built-in identifier when nothing is configured
Effective ==
    IF settings.AVAILABLE_LLM_MODELS = <<>> THEN <<DefaultId>>
    ELSE settings.AVAILABLE_LLM_MODELS

\* the registry is made of the identifiers of a list that could be built,
\* each with the handle of its model; construction failed exactly when
\* none could be built, so a registry in service is not empty
HoldsBuilt(ids) ==
    /\ GetAllNames(LLMS) = Built(ids)
    /\ \A i \in 1..Len(LLMS) : LLMS[i].llm.name = LLMS[i].name
    /\ service = "failed" <=> Built(ids) = <<>>
    /\ service = "ready" => Len(LLMS) >= 1

\* C17 as claimed: after initialize() the registry holds exactly the
\* configured identifiers whose handle could be built, in configuration
\* order, and initialize() fails exactly when none of them could be built.
C17_ExactlyConfigured == HoldsBuilt(settings.AVAILABLE_LLM_MODELS)

\* C17 amended: the same of the list initialize() works through, which is
\* the configured list or, when no identifier is configured, the one
\* built-in default identifier of the provider.
C17_ExactlyEffective == HoldsBuilt(Effective)

\* C17 witness: of three configured identifiers the second could not be
\* built and the registry holds the first and the third
C17_Witness ==
    /\ Len(settings.AVAILABLE_LLM_MODELS) = 3
    /\ settings.AVAILABLE_LLM_MODELS[2] \notin provider
    /\ service = "ready"
    /\ GetAllNames(LLMS) = <<settings.AVAILABLE_LLM_MODELS[1],
                              settings.AVAILABLE_LLM_MODELS[3]>>
    /\ lookup.called

----------------------------------------------------------------------------
(* Cancellation of call() *)

\* C18 (states): a call a CancelledError was thrown into has ended with it:
\* it is suspended nowhere, formed no RuntimeError and returned no response.
C18_CancelEndsCall ==
    obs.cancelled
    => /\ pc[Watched] = "cancelled"
       /\ frame[Watched] = IdleFrame
       /\ obs.error_tried = 0
       /\ obs.response = NoHandle
       /\ current_model_index = obs.end_cursor

\* C18 (steps): the step in which the CancelledError is thrown into the call
\* counts no model, starts no invocation, and leaves the cursor and the
\* active handle alone.
C18_CancelChangesNothing ==
    (~obs.cancelled /\ obs'.cancelled)
    => /\ current_model_index' = current_model_index
       /\ llm' = llm
       /\ obs'.rotations = obs.rotations
       /\ obs'.invocations = obs.invocations
       /\ obs'.visited = obs.visited

\* C18: a cancellation that arrives during a backend invocation or a backoff
\* sleep leaves call() as it is: no retry, no model counted as failed, no
\* further invocation and no rotation by that call.
C18_CancelPropagates == []C18_CancelEndsCall /\ [][C18_CancelChangesNothing]_vars

\* C18 witness: a call that had rotated once and was sleeping before another
\* attempt was cancelled in its sleep
C18_Witness ==
    /\ obs.cancelled
    /\ pc[Watched] = "cancelled"
    /\ obs.rotations = 1
    /\ Len(obs.unit) >= 1
    /\ obs.unit[Len(obs.unit)].res = "retryable"

----------------------------------------------------------------------------
(* Overlapping calls *)

\* C19: a call ends with every model failed only after it has itself
\* invoked each of the N registered models at least once.
C19_ExhaustedAfterAll ==
    pc[Watched] = "exhausted"
    => \A i \in 0..(N - 1) : NameAt(i) \in obs.invoked

\* caller p rotates in this step: its call counts a failed model and goes on
Rotates(p) ==
    /\ pc[p] = "invoking"
    /\ frame'[p].models_tried = frame[p].models_tried + 1

\* caller p enters call() in this step
Enters(p) == pc[p] \notin {"invoking", "sleeping"} /\ pc'[p] # pc[p]

\* C20: whatever calls overlap, a rotation takes the cursor from the value it
\* has in that step to the next one of the circular order, so no write of
\* another call falls between its read and its write; and the cursor moves
\* in no other step of a call without model_name.  After k rotations from
\* cursor c0 the cursor is therefore (c0 + k) mod N.
C20_RotationStep ==
    /\ \A p \in Procs : Rotates(p) => current_model_index' = (current_model_index + 1) % N
    /\ current_model_index' # current_model_index
          => \E p \in Procs : Rotates(p) \/ Enters(p)
    /\ (Enters(Watched) /\ obs'.model_name = NoModel)
          => current_model_index' = current_model_index

C20_AtomicRotation == [][C20_RotationStep]_vars

\* C20 witness: two calls entered at cursor 0 of a registry of three have
\* each rotated once while the other was in progress, and the cursor is 2
C20_Witness ==
    /\ N = 3
    /\ \A p \in Procs : /\ pc[p] \in {"invoking", "sleeping"}
                          /\ frame[p].starting_index = 0
                          /\ frame[p].models_tried = 1
    /\ current_model_index = 2

\* C21: every attempt of one Retry Unit run goes to the handle its first
\* attempt went to, also when another call rotates the cursor or selects a
\* model while the run is suspended.
C21_OneHandlePerRun ==
    Len(obs.unit) >= 1
    => /\ \A i \in 1..Len(obs.unit) : obs.unit[i].h = obs.unit[1].h
       /\ pc[Watched] = "invoking" => frame[Watched].target = obs.unit[1].h

----------------------------------------------------------------------------
(* The error a Retry Unit run hands to call() *)

\* C22 (steps): when a Retry Unit run gives up at its R-th attempt, the
\* error call() records for the model is the exception of that attempt: it
\* was raised by the model the attempt went to, at attempt R, and is of the
\* kind that invocation ended with.
C22_LastAttemptRaised ==
    (UnitRaises /\ Len(obs.unit) + 1 = R)
    => /\ LastError'.att = R
       /\ LastError'.model = frame[Watched].target.name
       /\ LastError'.kind \in {"retryable", "fatal"}
       /\ <<LastError'.model, LastError'.kind>> \in obs'.seen

\* C22 (states): the error a call ended with is the exception of the last
\* attempt of its last Retry Unit run, not of an earlier attempt.
C22_LastAttemptKept ==
    pc[Watched] = "exhausted"
    => /\ obs.error_last.att = Len(obs.unit)
       /\ obs.error_last.kind = obs.unit[Len(obs.unit)].res
       /\ obs.error_last.model = obs.unit[Len(obs.unit)].h.name

----------------------------------------------------------------------------
(* The active handle and the cursor *)

\* the handle of the registry entry at the cursor
HandleAtCursor == LLMS[current_model_index + 1].llm

\* caller p starts a backend invocation in this step
StartsInvocation(p) ==
    /\ pc'[p] = "invoking"
    /\ pc[p] # "invoking" \/ frame'[p] # frame[p]

\* C23 (states): with registry handles only, the active handle of a
\* constructed service is the handle of the entry at the cursor whenever
\* control is with the event loop.
C23_HandleAtCursor == service = "ready" => llm = HandleAtCursor

\* C23 (steps): every backend invocation a call starts goes to the handle
\* of the entry at the cursor of that moment.
C23_InvokesAtCursor ==
    \A p \in Procs :
       StartsInvocation(p) => frame'[p].target = LLMS[current_model_index' + 1].llm

\* C23: without kwargs overrides and bind_tools, construction, rotation and
\* explicit selection keep _llm the handle of the entry at
\* _current_model_index, so every invocation goes to the handle at the cursor.
C23_HandleFollowsCursor == []C23_HandleAtCursor /\ [][C23_InvokesAtCursor]_vars

\* C23 witness: with every caller in a call, the watched one has rotated to
\* the last entry of a registry of three and invokes its handle
C23_Witness ==
    /\ N = 3
    /\ \A p \in Procs : pc[p] \in {"invoking", "sleeping"}
    /\ pc[Watched] = "invoking"
    /\ obs.rotations >= 1
    /\ current_model_index = 2
    /\ frame[Watched].target = LLMS[3].llm

\* C24: once bind_tools has wrapped the active handle, every backend
\* invocation a call starts goes to a tool-bound handle, after a rotation
\* and after an explicit selection too.
C24_ToolsStayBound ==
    [][(llm.tools /\ StartsInvocation(Watched)) => frame'[Watched].target.tools]_vars

----------------------------------------------------------------------------
(* The cursor after a call that found no model *)

\* C25 (states): a call that ended with every model failed has rotated N-1
\* times and left the cursor on the last model it tried, (start + N - 1)
\* mod N, which is not its starting index when N >= 2.
C25_CursorAtLastTried ==
    pc[Watched] = "exhausted"
    => /\ obs.rotations = N - 1
       /\ obs.end_cursor = (obs.start + N - 1) % N
       /\ current_model_index = (obs.start + N - 1) % N
       /\ NameAt(current_model_index) = obs.visited[Len(obs.visited)]
       /\ N >= 2 => current_model_index # obs.start

\* C25 (steps): the caller's next call without model_name starts from that
\* last-tried model.
C25_NextStartsThere ==
    (pc[Watched] = "exhausted" /\ pc'[Watched] = "invoking" /\ obs'.model_name = NoModel)
    => /\ obs'.start = (obs.start + N - 1) % N
       /\ obs'.visited = <<obs.visited[Len(obs.visited)]>>

\* C25: an exhausted call makes N-1 rotations, leaves the cursor at
\* (start + N - 1) mod N, and the next call without model_name starts there.
C25_ExhaustedLeavesCursor == []C25_CursorAtLastTried /\ [][C25_NextStartsThere]_vars

\* C25 witness: a call that started at the last entry of a registry of three
\* ended exhausted with the cursor on the second entry
C25_Witness ==
    /\ N = 3
    /\ pc[Watched] = "exhausted"
    /\ obs.start = 2
    /\ obs.rotations = 2
    /\ current_model_index = 1

----------------------------------------------------------------------------
(* Telling an error termination from a final one *)

\* C26: in plain mode the terminal frame yielded for a failure of the feed
\* is not the frame yielded on normal completion (content "", done=true).
C26_ErrorDiffersFromFinal ==
    (stream.mode = "plain" /\ stream.ended = "raised")
    => stream.out[Len(stream.out)] # StreamResponse("", TRUE)

----------------------------------------------------------------------------
(* The cursor and the active handle after construction *)

\* positions of the registry that hold the configured default model
DefaultAt ==
    {i \in 0..(Len(LLMS) - 1) : LLMS[i + 1].name = settings.DEFAULT_LLM_MODEL}

\* C27: after construction the cursor is the registry index of the default
\* model when it is registered (its first entry) and 0 otherwise; the active
\* handle is the handle of the entry at the cursor; construction failed
\* exactly when the registry has no entry.
C27_CursorAtDefault ==
    /\ service = "failed" <=> LLMS = <<>>
    /\ service = "ready"
       => /\ DefaultAt # {} => /\ current_model_index \in DefaultAt
                               /\ \A i \in DefaultAt : current_model_index <= i
          /\ DefaultAt = {} => current_model_index = 0
          /\ current_model_index \in 0..(Len(LLMS) - 1)
          /\ llm = LLMS[current_model_index + 1].llm

\* C27 witness: the default model is the second identifier configured, the
\* first one was built too, and the service was constructed with the cursor
\* on the second entry
C27_Witness ==
    /\ service = "ready"
    /\ Len(LLMS) >= 2
    /\ settings.DEFAULT_LLM_MODEL = AllIds[2]
    /\ LLMS[1].name = AllIds[1]
    /\ LLMS[2].name = AllIds[2]
    /\ current_model_index = 1
    /\ llm = LLMS[2].llm
    /\ lookup.called

====
